---- MODULE Spec2Model ----
(***************************************************************************)
(* TradingEngine of src/test-analysis-target.py: a single-account limit    *)
(* order simulator.  Real quantities (balance, quantity, price) are        *)
(* modelled as integers of a fixed unit.  The engine is single-threaded:   *)
(* every public operation (update_market_price, place_order) is one        *)
(* atomic action.                                                          *)
(***************************************************************************)
EXTENDS Integers, Sequences, FiniteSets, TLC

\* ---------------------------------------------------------------- bounds
\* Number of place_order calls explored on one engine instance.
MaxOrders == 2

Symbols == {"BTC", "ETH"}
Quantities == {1, 2}
Prices == {3000, 6000}
Volumes == {1000}
\* Balances handed to the constructor; 10000 is the default of __init__.
InitialBalances == {6000, 10000}

\* ---------------------------------------------------------------- enums
BUY == "buy"
SELL == "sell"
OrderType == {BUY, SELL}

PENDING == "pending"
EXECUTED == "executed"
CANCELLED == "cancelled"
OrderStatus == {PENDING, EXECUTED, CANCELLED}

\* ---------------------------------------------------------------- state
VARIABLES
    balance,          \* self.balance
    portfolio,        \* self.portfolio: symbol -> quantity, partial
    orders,           \* self.orders: the ledger, a list of Order
    market_data,      \* self.market_data: symbol -> MarketData, partial
    trade_history,    \* self.trade_history: list of trade dicts
    initial_balance,  \* the argument the constructor was called with
    placed,           \* number of place_order calls made so far
    last_call,        \* the last public operation and its arguments
    result,           \* what the last public operation returned
    returned_ids,     \* order_ids returned by place_order, in call order
    attempts,         \* the _execute_order calls made by the last operation
    failed,           \* timestamps of ledger orders whose settlement failed
    retried,          \* orders the last operation settled after a failure
    repeat,           \* the last call redelivered the tick of the call before
    lifecycle,        \* per placed Order object: its status, its trade records
    scenario          \* calls of the reference scenario made so far, -1 if off it

engine == <<balance, portfolio, orders, market_data, trade_history>>
vars == <<balance, portfolio, orders, market_data, trade_history,
          initial_balance, placed, last_call, result, returned_ids,
          attempts, failed, retried, repeat, lifecycle, scenario>>

\* The engine object as one value, as the methods see it through self.
Self ==
    [balance |-> balance, portfolio |-> portfolio, orders |-> orders,
     market_data |-> market_data, trade_history |-> trade_history]

\* dict.get(key, default)
Get(d, key, default) == IF key \in DOMAIN d THEN d[key] ELSE default

\* d[key] = value on a dict modelled as a function with a finite domain
Put(d, key, value) ==
    [k \in DOMAIN d \cup {key} |-> IF k = key THEN value ELSE d[k]]

\* del d[key]
Del(d, key) == [k \in DOMAIN d \ {key} |-> d[k]]

EmptyDict == [k \in {} |-> 0]

\* ------------------------------------------------------------- order ids
\* Decimal digits of n, most significant first.
RECURSIVE Digits(_)
Digits(n) == IF n < 10 THEN <<n>> ELSE Append(Digits(n \div 10), n % 10)

RECURSIVE ZeroPad(_, _)
ZeroPad(ds, width) == IF Len(ds) >= width THEN ds ELSE ZeroPad(<<0>> \o ds, width)

\* f"ORD_{n:04d}"
FormatOrderId(n) == [prefix |-> "ORD_", digits |-> ZeroPad(Digits(n), 4)]

\* ------------------------------------------------------------ the engine
\* Order(...) as built by place_order; status defaults to PENDING.  The
\* timestamp is the logical time of the placement: distinct place_order
\* calls read distinct, increasing clock values.
Order(order_id, symbol, order_type, quantity, target_price, timestamp) ==
    [order_id |-> order_id, symbol |-> symbol, order_type |-> order_type,
     quantity |-> quantity, target_price |-> target_price,
     timestamp |-> timestamp, status |-> PENDING]

MarketData(symbol, price, volume) ==
    [symbol |-> symbol, price |-> price, volume |-> volume]

\* Mutant: the two comparisons are swapped.
_should_execute_order_swapped(order, current_price) ==
    IF order.order_type = BUY
    THEN current_price >= order.target_price
    ELSE current_price <= order.target_price

\* Mutant: the limit is ignored.
_should_execute_order_always(order, current_price) == TRUE

_should_execute_order(order, current_price) ==
    IF order.order_type = BUY
    THEN current_price <= order.target_price
    ELSE current_price >= order.target_price

\* Mutant: the new record is put in front of the history.
_record_trade_prepend(self, i, price, total) ==
    LET order == self.orders[i]
        trade == [id |-> order.order_id, symbol |-> order.symbol,
                  type |-> order.order_type, quantity |-> order.quantity,
                  price |-> price, total |-> total,
                  balance_after |-> self.balance]
    IN [self EXCEPT !.trade_history = <<trade>> \o @]

\* order is referenced by its position i in self.orders
_record_trade(self, i, price, total) ==
    LET order == self.orders[i]
        trade == [id |-> order.order_id, symbol |-> order.symbol,
                  type |-> order.order_type, quantity |-> order.quantity,
                  price |-> price, total |-> total,
                  balance_after |-> self.balance]
    IN [self EXCEPT !.trade_history = Append(@, trade)]

\* Mutant: the cash check is dropped.
BuyAffordable_unchecked(self, order, total_cost) == TRUE

\* if self.balance >= total_cost
BuyAffordable(self, order, total_cost) == self.balance >= total_cost

\* Mutant: the check looks for a holding, not for enough of it.
SellCovered_presence_only(self, order) == order.symbol \in DOMAIN self.portfolio

\* if self.portfolio.get(order.symbol, 0) >= order.quantity
SellCovered(self, order) == Get(self.portfolio, order.symbol, 0) >= order.quantity

\* Mutant: the Buy does not debit the balance.
BuySettle_no_debit(self, i, total_cost) ==
    LET order == self.orders[i]
    IN [self EXCEPT
          !.portfolio = Put(@, order.symbol, Get(@, order.symbol, 0) + order.quantity),
          !.orders[i].status = EXECUTED]

\* Mutant: the Buy leaves the order's status as it was.
BuySettle_keeps_pending(self, i, total_cost) ==
    LET order == self.orders[i]
    IN [self EXCEPT
          !.balance = @ - total_cost,
          !.portfolio = Put(@, order.symbol, Get(@, order.symbol, 0) + order.quantity)]

\* The mutations of the BUY branch before the trade is recorded.
BuySettle(self, i, total_cost) ==
    LET order == self.orders[i]
    IN [self EXCEPT
          !.balance = @ - total_cost,
          !.portfolio = Put(@, order.symbol, Get(@, order.symbol, 0) + order.quantity),
          !.orders[i].status = EXECUTED]

\* Mutant: a holding sold down to 0 is kept as an explicit zero entry.
SellSettle_keep_zero(self, i, total_cost) ==
    LET order == self.orders[i]
        held == self.portfolio[order.symbol] - order.quantity
    IN [self EXCEPT
          !.balance = @ + total_cost,
          !.portfolio = Put(@, order.symbol, held),
          !.orders[i].status = EXECUTED]

\* The mutations of the SELL branch before the trade is recorded.
SellSettle(self, i, total_cost) ==
    LET order == self.orders[i]
        held == self.portfolio[order.symbol] - order.quantity
    IN [self EXCEPT
          !.balance = @ + total_cost,
          !.portfolio = IF held = 0 THEN Del(@, order.symbol)
                                    ELSE Put(@, order.symbol, held),
          !.orders[i].status = EXECUTED]

_execute_order(self, i, execution_price) ==
    LET order == self.orders[i]
        total_cost == order.quantity * execution_price
    IN IF order.order_type = BUY
       THEN IF BuyAffordable(self, order, total_cost)
            THEN [self |-> _record_trade(BuySettle(self, i, total_cost), i,
                                         execution_price, total_cost),
                  ret |-> TRUE]
            ELSE [self |-> self, ret |-> FALSE]
       ELSE IF SellCovered(self, order)
            THEN [self |-> _record_trade(SellSettle(self, i, total_cost), i,
                                         execution_price, total_cost),
                  ret |-> TRUE]
            ELSE [self |-> self, ret |-> FALSE]

\* One _execute_order call as the trace `attempts` records it.
Attempt(before, i, price, r) ==
    [order |-> before.orders[i], price |-> price, ret |-> r.ret,
     balance_before |-> before.balance,
     portfolio_before |-> before.portfolio,
     trades_before |-> Len(before.trade_history),
     balance_after |-> r.self.balance,
     portfolio_after |-> r.self.portfolio,
     trades_after |-> Len(r.self.trade_history),
     status_after |-> r.self.orders[i].status]

\* Mutant: the loop ends at the first order it settles.
RECURSIVE SweepFrom_first_only(_, _, _, _)
SweepFrom_first_only(acc, symbol, current_price, i) ==
    IF i > Len(acc.self.orders) THEN acc
    ELSE LET order == acc.self.orders[i]
         IN IF /\ order.symbol = symbol
               /\ order.status = PENDING
               /\ _should_execute_order(order, current_price)
            THEN LET r == _execute_order(acc.self, i, current_price)
                     next == [self |-> r.self,
                              executed_orders |->
                                  IF r.ret
                                  THEN Append(acc.executed_orders, r.self.orders[i])
                                  ELSE acc.executed_orders,
                              log |-> Append(acc.log,
                                             Attempt(acc.self, i, current_price, r))]
                 IN IF r.ret THEN next
                    ELSE SweepFrom_first_only(next, symbol, current_price, i + 1)
            ELSE SweepFrom_first_only(acc, symbol, current_price, i + 1)

\* Mutant: the loop does not compare the order's symbol with the ticked one.
RECURSIVE SweepFrom_all_symbols(_, _, _, _)
SweepFrom_all_symbols(acc, symbol, current_price, i) ==
    IF i > Len(acc.self.orders) THEN acc
    ELSE LET order == acc.self.orders[i]
         IN IF /\ order.status = PENDING
               /\ _should_execute_order(order, current_price)
            THEN LET r == _execute_order(acc.self, i, current_price)
                     next == [self |-> r.self,
                              executed_orders |->
                                  IF r.ret
                                  THEN Append(acc.executed_orders, r.self.orders[i])
                                  ELSE acc.executed_orders,
                              log |-> Append(acc.log,
                                             Attempt(acc.self, i, current_price, r))]
                 IN SweepFrom_all_symbols(next, symbol, current_price, i + 1)
            ELSE SweepFrom_all_symbols(acc, symbol, current_price, i + 1)

\* The for loop of _process_pending_orders from position i on; acc carries
\* self, executed_orders and the trace of the calls made.
RECURSIVE SweepFrom(_, _, _, _)
SweepFrom(acc, symbol, current_price, i) ==
    IF i > Len(acc.self.orders) THEN acc
    ELSE LET order == acc.self.orders[i]
         IN IF /\ order.symbol = symbol
               /\ order.status = PENDING
               /\ _should_execute_order(order, current_price)
            THEN LET r == _execute_order(acc.self, i, current_price)
                     next == [self |-> r.self,
                              executed_orders |->
                                  IF r.ret
                                  THEN Append(acc.executed_orders, r.self.orders[i])
                                  ELSE acc.executed_orders,
                              log |-> Append(acc.log,
                                             Attempt(acc.self, i, current_price, r))]
                 IN SweepFrom(next, symbol, current_price, i + 1)
            ELSE SweepFrom(acc, symbol, current_price, i + 1)

Range(s) == {s[k] : k \in 1..Len(s)}

\* Mutant: the comprehension keeps every order.
Without_keep_all(seq, removed) == seq

\* Mutant: the ledger is cleared as soon as anything was executed.
Without_drop_all(seq, removed) == IF removed = {} THEN seq ELSE <<>>

\* [o for o in seq if o not in removed]
RECURSIVE Without(_, _)
Without(seq, removed) ==
    IF seq = <<>> THEN <<>>
    ELSE IF Head(seq) \in removed
         THEN Without(Tail(seq), removed)
         ELSE <<Head(seq)>> \o Without(Tail(seq), removed)

\* Mutant: nothing is removed.
RemoveFirst_noop(seq, x) == seq

\* list.remove(x): drops the first element equal to x
RECURSIVE RemoveFirst(_, _)
RemoveFirst(seq, x) ==
    IF seq = <<>> THEN <<>>
    ELSE IF Head(seq) = x THEN Tail(seq)
         ELSE <<Head(seq)>> \o RemoveFirst(Tail(seq), x)

\* Mutant: the executed orders are not removed from the ledger.
_process_pending_orders_keep_executed(self, symbol) ==
    LET current_price == self.market_data[symbol].price
        swept == SweepFrom([self |-> self, executed_orders |-> <<>>, log |-> <<>>],
                           symbol, current_price, 1)
    IN [self |-> swept.self, log |-> swept.log]

\* Mutant: every order the sweep attempted is removed, settled or not.
_process_pending_orders_drop_attempted(self, symbol) ==
    LET current_price == self.market_data[symbol].price
        swept == SweepFrom([self |-> self, executed_orders |-> <<>>, log |-> <<>>],
                           symbol, current_price, 1)
    IN [self |-> [swept.self EXCEPT
                    !.orders = Without(@, Range(swept.executed_orders)
                                          \cup {swept.log[k].order :
                                                    k \in 1..Len(swept.log)})],
        log |-> swept.log]

_process_pending_orders(self, symbol) ==
    LET current_price == self.market_data[symbol].price
        swept == SweepFrom([self |-> self, executed_orders |-> <<>>, log |-> <<>>],
                           symbol, current_price, 1)
    IN [self |-> [swept.self EXCEPT
                    !.orders = Without(@, Range(swept.executed_orders))],
        log |-> swept.log]

update_market_price(self, symbol, price, volume) ==
    _process_pending_orders(
        [self EXCEPT !.market_data = Put(@, symbol, MarketData(symbol, price, volume))],
        symbol)

\* Mutant: without a snapshot the order is settled at its target price.
place_order_settles_at_target(self, symbol, order_type, quantity, target_price, now) ==
    LET order == Order(FormatOrderId(Len(self.orders) + 1), symbol, order_type,
                       quantity, target_price, now)
        s1 == [self EXCEPT !.orders = Append(@, order)]
        i == Len(s1.orders)
        current_price == IF symbol \in DOMAIN s1.market_data
                         THEN s1.market_data[symbol].price
                         ELSE target_price
    IN IF _should_execute_order(order, current_price)
       THEN LET r == _execute_order(s1, i, current_price)
                log == <<Attempt(s1, i, current_price, r)>>
            IN IF r.ret
               THEN [self |-> [r.self EXCEPT
                                 !.orders = RemoveFirst(@, r.self.orders[i])],
                     ret |-> r.self.orders[i], log |-> log]
               ELSE [self |-> r.self, ret |-> r.self.orders[i], log |-> log]
       ELSE [self |-> s1, ret |-> order, log |-> <<>>]

place_order(self, symbol, order_type, quantity, target_price, now) ==
    LET order == Order(FormatOrderId(Len(self.orders) + 1), symbol, order_type,
                       quantity, target_price, now)
        s1 == [self EXCEPT !.orders = Append(@, order)]
        i == Len(s1.orders)
    IN IF symbol \in DOMAIN s1.market_data
       THEN LET current_price == s1.market_data[symbol].price
            IN IF _should_execute_order(order, current_price)
               THEN LET r == _execute_order(s1, i, current_price)
                        log == <<Attempt(s1, i, current_price, r)>>
                    IN IF r.ret
                       THEN [self |-> [r.self EXCEPT
                                         !.orders = RemoveFirst(@, r.self.orders[i])],
                             ret |-> r.self.orders[i], log |-> log]
                       ELSE [self |-> r.self, ret |-> r.self.orders[i], log |-> log]
               ELSE [self |-> s1, ret |-> order, log |-> <<>>]
       ELSE [self |-> s1, ret |-> order, log |-> <<>>]

\* Mutant: the loop returns after the first held symbol.
SumHeld_return_in_loop(self, syms, total_value) ==
    IF syms = {} THEN total_value
    ELSE LET symbol == CHOOSE s \in syms : TRUE
         IN IF symbol \in DOMAIN self.market_data
            THEN total_value + self.portfolio[symbol] * self.market_data[symbol].price
            ELSE total_value

RECURSIVE SumHeld(_, _, _)
SumHeld(self, syms, total_value) ==
    IF syms = {} THEN total_value
    ELSE LET symbol == CHOOSE s \in syms : TRUE
         IN SumHeld(self, syms \ {symbol},
                    IF symbol \in DOMAIN self.market_data
                    THEN total_value
                         + self.portfolio[symbol] * self.market_data[symbol].price
                    ELSE total_value)

get_portfolio_value(self) == SumHeld(self, DOMAIN self.portfolio, self.balance)

\* return_percentage is ((current_value / initial_value) - 1) * 100, kept as
\* the exact fraction num / den.
get_performance_metrics(self) ==
    LET current_value == get_portfolio_value(self)
        initial_value == 10000
    IN [current_value |-> current_value,
        total_return |-> current_value - initial_value,
        return_percentage |-> [num |-> (current_value - initial_value) * 100,
                               den |-> initial_value],
        total_trades |-> Len(self.trade_history),
        cash_balance |-> self.balance,
        portfolio_positions |-> Cardinality(DOMAIN self.portfolio)]

\* --------------------------------------------------------------- actions
\* TradingEngine(initial_balance)
Init ==
    /\ initial_balance \in InitialBalances
    /\ balance = initial_balance
    /\ portfolio = EmptyDict
    /\ orders = <<>>
    /\ market_data = EmptyDict
    /\ trade_history = <<>>
    /\ placed = 0
    /\ last_call = [op |-> "__init__"]
    /\ result = [kind |-> "None"]
    /\ returned_ids = <<>>
    /\ attempts = <<>>
    /\ failed = {}
    /\ retried = {}
    /\ repeat = FALSE
    /\ lifecycle = EmptyDict
    /\ scenario = 0

SetEngine(self) ==
    /\ balance' = self.balance
    /\ portfolio' = self.portfolio
    /\ orders' = self.orders
    /\ market_data' = self.market_data
    /\ trade_history' = self.trade_history

\* Orders of the trace that failed, resp. succeeded, by timestamp.
FailedIn(log) == {log[k].order.timestamp : k \in {j \in 1..Len(log) : ~log[j].ret}}
ExecutedIn(log) == {log[k].order.timestamp : k \in {j \in 1..Len(log) : log[j].ret}}

\* The Order objects after an operation: the one place_order created (if
\* any) joins as PENDING; an object _execute_order settled takes the status
\* the call left it with and counts one more trade record.
Lifecycle(before, created, log) ==
    LET all == before @@ [ts \in created |-> [status |-> PENDING, trades |-> 0]]
    IN [ts \in DOMAIN all |->
          LET calls == {k \in 1..Len(log) : log[k].order.timestamp = ts}
              done == {k \in calls : log[k].ret}
          IN IF calls = {} THEN all[ts]
             ELSE [status |-> log[CHOOSE k \in calls : \A j \in calls : j <= k].status_after,
                   trades |-> all[ts].trades + Cardinality(done)]]

\* The reference scenario of the specification (its properties 6 and 7), in
\* units of 0.01 BTC and 0.01 currency: balance 10000 is 1000000, 0.1 BTC
\* is 10, and quantity * price is then in units of 0.01 currency.
ScenarioBalance == 1000000
ReferenceScenario ==
    << [op |-> "update_market_price", symbol |-> "BTC", price |-> 45000],
       [op |-> "place_order", symbol |-> "BTC", order_type |-> BUY,
        quantity |-> 10, target_price |-> 44000],
       [op |-> "update_market_price", symbol |-> "BTC", price |-> 43500],
       [op |-> "place_order", symbol |-> "BTC", order_type |-> SELL,
        quantity |-> 5, target_price |-> 46000],
       [op |-> "update_market_price", symbol |-> "BTC", price |-> 46500] >>

\* Position in the reference scenario after one more call.
Advance(pos, call) ==
    IF pos >= 0 /\ pos < Len(ReferenceScenario) /\ ReferenceScenario[pos + 1] = call
    THEN pos + 1
    ELSE -1

UpdateMarketPrice(symbol, price, volume) ==
    \E r \in {update_market_price(Self, symbol, price, volume)} :
       /\ SetEngine(r.self)
       /\ last_call' = [op |-> "update_market_price", symbol |-> symbol,
                        price |-> price, volume |-> volume]
       /\ result' = [kind |-> "None"]
       /\ attempts' = r.log
       /\ failed' = (failed \cup FailedIn(r.log)) \ ExecutedIn(r.log)
       /\ retried' = failed \cap ExecutedIn(r.log)
       /\ repeat' = /\ last_call.op = "update_market_price"
                     /\ last_call.symbol = symbol
                     /\ last_call.price = price
       /\ lifecycle' = Lifecycle(lifecycle, {}, r.log)
       /\ scenario' = Advance(scenario, [op |-> "update_market_price",
                                          symbol |-> symbol, price |-> price])
       /\ UNCHANGED <<initial_balance, placed, returned_ids>>

PlaceOrder(symbol, order_type, quantity, target_price) ==
    /\ placed < MaxOrders
    /\ \E r \in {place_order(Self, symbol, order_type, quantity, target_price,
                              placed + 1)} :
          /\ SetEngine(r.self)
          /\ result' = [kind |-> "Order", order |-> r.ret]
          /\ returned_ids' = Append(returned_ids, r.ret.order_id)
          /\ attempts' = r.log
          /\ failed' = (failed \cup FailedIn(r.log)) \ ExecutedIn(r.log)
          /\ retried' = failed \cap ExecutedIn(r.log)
          /\ lifecycle' = Lifecycle(lifecycle, {placed + 1}, r.log)
    /\ scenario' = Advance(scenario, [op |-> "place_order", symbol |-> symbol,
                                      order_type |-> order_type,
                                      quantity |-> quantity,
                                      target_price |-> target_price])
    /\ repeat' = FALSE
    /\ placed' = placed + 1
    /\ last_call' = [op |-> "place_order", symbol |-> symbol,
                     order_type |-> order_type, quantity |-> quantity,
                     target_price |-> target_price]
    /\ UNCHANGED initial_balance

Tick == \E symbol \in Symbols, price \in Prices, volume \in Volumes :
            UpdateMarketPrice(symbol, price, volume)

Place == \E symbol \in Symbols, order_type \in OrderType,
            quantity \in Quantities, target_price \in Prices :
            PlaceOrder(symbol, order_type, quantity, target_price)

Next == Tick \/ Place

Spec == Init /\ [][Next]_vars

\* ------------------------------------------------------------ queries
\* engine.get_portfolio_value(): reads self, assigns nothing.
GetPortfolioValue ==
    /\ result' = [kind |-> "float", value |-> get_portfolio_value(Self)]
    /\ last_call' = [op |-> "get_portfolio_value"]
    /\ attempts' = <<>>
    /\ retried' = {}
    /\ repeat' = FALSE
    /\ UNCHANGED <<engine, initial_balance, placed, returned_ids, failed,
                   lifecycle, scenario>>

NextQuery == Tick \/ Place \/ GetPortfolioValue

SpecQuery == Init /\ [][NextQuery]_vars

\* ---------------------------------------------------- unchecked input
\* update_market_price validates nothing: the caller may hand it a price
\* that is not positive.
UncheckedPrices == Prices \cup {0}

TickUnchecked == \E symbol \in Symbols, price \in UncheckedPrices,
                    volume \in Volumes :
                    UpdateMarketPrice(symbol, price, volume)

NextUnchecked == TickUnchecked \/ Place

SpecUnchecked == Init /\ [][NextUnchecked]_vars

\* ------------------------------------------- the reference scenario
\* The engine of the reference scenario, fed the values of that scenario
\* in any order.
ScenarioSymbols == {"BTC"}
ScenarioQuantities == {5, 10}
ScenarioPrices == {43500, 45000, 46500}
ScenarioTargets == {44000, 46000}

InitScenario ==
    /\ initial_balance = ScenarioBalance
    /\ balance = initial_balance
    /\ portfolio = EmptyDict
    /\ orders = <<>>
    /\ market_data = EmptyDict
    /\ trade_history = <<>>
    /\ placed = 0
    /\ last_call = [op |-> "__init__"]
    /\ result = [kind |-> "None"]
    /\ returned_ids = <<>>
    /\ attempts = <<>>
    /\ failed = {}
    /\ retried = {}
    /\ repeat = FALSE
    /\ lifecycle = EmptyDict
    /\ scenario = 0

TickScenario == \E symbol \in ScenarioSymbols, price \in ScenarioPrices,
                   volume \in Volumes :
                   UpdateMarketPrice(symbol, price, volume)

PlaceScenario == \E symbol \in ScenarioSymbols, order_type \in OrderType,
                    quantity \in ScenarioQuantities,
                    target_price \in ScenarioTargets :
                    PlaceOrder(symbol, order_type, quantity, target_price)

NextScenario == TickScenario \/ PlaceScenario

SpecScenario == InitScenario /\ [][NextScenario]_vars

\* ------------------------------------------------------- claim helpers
Indices(seq) == 1..Len(seq)

\* Lexicographic order of two digit strings (string comparison of the ids).
RECURSIVE DigitsLess(_, _)
DigitsLess(a, b) ==
    IF b = <<>> THEN FALSE
    ELSE IF a = <<>> THEN TRUE
    ELSE IF Head(a) # Head(b) THEN Head(a) < Head(b)
    ELSE DigitsLess(Tail(a), Tail(b))

IdLess(a, b) == a.prefix = b.prefix /\ DigitsLess(a.digits, b.digits)

\* The matching rule as the specification words it.
Fireable(order_type, target_price, price) ==
    \/ order_type = BUY /\ price <= target_price
    \/ order_type = SELL /\ price >= target_price

\* Resources an attempt needed against what was there when it was made.
Sufficient(a) ==
    IF a.order.order_type = BUY
    THEN a.balance_before >= a.order.quantity * a.price
    ELSE Get(a.portfolio_before, a.order.symbol, 0) >= a.order.quantity

InLedger(ts, ledger) == \E k \in Indices(ledger) : ledger[k].timestamp = ts

\* ------------------------------------------------------------------- C1
\* C1: the order_ids returned by place_order on one engine are pairwise
\* distinct and increase in placement order, also when earlier orders
\* have executed and left the ledger.
C1_MonotonicOrderIds ==
    \A i, j \in Indices(returned_ids) :
        i < j => /\ returned_ids[i] # returned_ids[j]
                 /\ IdLess(returned_ids[i], returned_ids[j])

\* ------------------------------------------------------------------- C2
\* C2 as claimed: a tick redelivered with the same symbol and price, with
\* no place_order in between, appends no trade and leaves balance,
\* holdings and the ledger as the first delivery left them.
C2_IdempotentSweep ==
    [][(last_call'.op = "update_market_price" /\ last_call.op = "update_market_price"
        /\ last_call'.symbol = last_call.symbol /\ last_call'.price = last_call.price)
       => /\ trade_history' = trade_history
          /\ balance' = balance
          /\ portfolio' = portfolio
          /\ orders' = orders]_vars

\* C2 amended: on a redelivered tick the orders the first delivery settled
\* are gone from the ledger and are not attempted again; the redelivery
\* attempts exactly the orders whose settlement the first delivery
\* attempted and failed; and when the first delivery left no failed
\* settlement the redelivery appends no trade and leaves balance, holdings
\* and the ledger unchanged.
C2_RedeliveryRetriesOnlyFailed ==
    [][(last_call'.op = "update_market_price" /\ last_call.op = "update_market_price"
        /\ last_call'.symbol = last_call.symbol /\ last_call'.price = last_call.price)
       => /\ \A ts \in ExecutedIn(attempts) :
                ~InLedger(ts, orders) /\ ts \notin ExecutedIn(attempts')
                                      /\ ts \notin FailedIn(attempts')
          /\ ExecutedIn(attempts') \cup FailedIn(attempts') = FailedIn(attempts)
          /\ FailedIn(attempts) = {}
                => /\ trade_history' = trade_history
                   /\ balance' = balance
                   /\ portfolio' = portfolio
                   /\ orders' = orders]_vars

\* A redelivered tick after the first delivery settled an order: nothing
\* is left to do.
C2_Witness ==
    /\ repeat
    /\ attempts = <<>>
    /\ trade_history # <<>>
    /\ trade_history[Len(trade_history)].symbol = last_call.symbol
    /\ trade_history[Len(trade_history)].price = last_call.price

\* ------------------------------------------------------------------- C3
\* C3: performance_metrics reports total_return = current_value - B and
\* return_percentage = (current_value / B - 1) * 100 for the balance B the
\* engine was constructed with; a fresh engine reports total_return = 0.
C3_ReturnAgainstInitialBalance ==
    LET m == get_performance_metrics(Self)
    IN /\ m.current_value = get_portfolio_value(Self)
       /\ m.total_return = m.current_value - initial_balance
       /\ initial_balance # 0 =>
             m.return_percentage.num * initial_balance
                 = (m.current_value - initial_balance) * 100 * m.return_percentage.den
       /\ last_call.op = "__init__" => m.total_return = 0

\* ------------------------------------------------------------------- C4
\* C4: with a non-negative initial balance and positive quantities, target
\* prices and tick prices, balance >= 0 and every holdings entry is >= 0
\* in every reachable state.
C4_NoNegative ==
    /\ balance >= 0
    /\ \A s \in DOMAIN portfolio : portfolio[s] >= 0

\* A Buy spent the whole balance.
C4_Witness ==
    /\ balance = 0
    /\ \E k \in Indices(attempts) :
          attempts[k].ret /\ attempts[k].order.order_type = BUY

\* ------------------------------------------------------------------- C5
\* C5: every successful execution of an order with quantity q at price p
\* appends exactly one trade record with total = q*p; a Buy lowers balance
\* by q*p and raises holdings[symbol] by q, a Sell raises balance by q*p
\* and lowers holdings[symbol] by q; balance_after of the record is the
\* balance right after the mutation.
C5_Conservation ==
    \A k \in Indices(attempts) :
        LET a == attempts[k]
            q == a.order.quantity
            s == a.order.symbol
        IN a.ret =>
             /\ a.trades_after = a.trades_before + 1
             /\ a.trades_after \in Indices(trade_history)
             /\ LET t == trade_history[a.trades_after]
                IN /\ t.id = a.order.order_id
                   /\ t.symbol = s
                   /\ t.type = a.order.order_type
                   /\ t.quantity = q
                   /\ t.price = a.price
                   /\ t.total = q * a.price
                   /\ t.balance_after = a.balance_after
             /\ IF a.order.order_type = BUY
                THEN /\ a.balance_after = a.balance_before - q * a.price
                     /\ Get(a.portfolio_after, s, 0)
                            = Get(a.portfolio_before, s, 0) + q
                ELSE /\ a.balance_after = a.balance_before + q * a.price
                     /\ Get(a.portfolio_after, s, 0)
                            = Get(a.portfolio_before, s, 0) - q
             /\ (k = Len(attempts) => balance = a.balance_after)

\* A Sell was settled by the last operation.
C5_Witness ==
    \E k \in Indices(attempts) :
        attempts[k].ret /\ attempts[k].order.order_type = SELL

\* ------------------------------------------------------------------- C6
\* C6: a settlement attempt on a fireable Buy with balance < quantity*price
\* or a fireable Sell with holdings (0 if absent) < quantity changes
\* nothing: balance, holdings and trade history stay as they were, the
\* order stays Pending and stays in the ledger.
C6_FailureAtomic ==
    \A k \in Indices(attempts) :
        LET a == attempts[k]
        IN ~Sufficient(a) =>
             /\ ~a.ret
             /\ a.balance_after = a.balance_before
             /\ a.portfolio_after = a.portfolio_before
             /\ a.trades_after = a.trades_before
             /\ a.status_after = PENDING
             /\ \E j \in Indices(orders) :
                   orders[j] = a.order /\ orders[j].status = PENDING

\* A fireable Buy was attempted with too little cash.
C6_Witness ==
    \E k \in Indices(attempts) :
        /\ attempts[k].order.order_type = BUY
        /\ attempts[k].balance_before < attempts[k].order.quantity * attempts[k].price
        /\ Fireable(BUY, attempts[k].order.target_price, attempts[k].price)

\* ------------------------------------------------------------------- C7
\* C7: the holdings mapping never contains an entry whose quantity is 0;
\* after a Sell that brings a symbol's holdings to exactly 0 the symbol is
\* absent from the mapping.
C7_NoZeroHolding ==
    /\ \A s \in DOMAIN portfolio : portfolio[s] # 0
    /\ \A k \in Indices(attempts) :
          LET a == attempts[k]
          IN (/\ a.ret
              /\ a.order.order_type = SELL
              /\ Get(a.portfolio_before, a.order.symbol, 0) = a.order.quantity)
             => a.order.symbol \notin DOMAIN a.portfolio_after

\* A Sell sold everything that was held of its symbol.
C7_Witness ==
    \E k \in Indices(attempts) :
        /\ attempts[k].ret
        /\ attempts[k].order.order_type = SELL
        /\ Get(attempts[k].portfolio_before, attempts[k].order.symbol, 0)
               = attempts[k].order.quantity
        /\ attempts[k].order.symbol \notin DOMAIN portfolio

\* ------------------------------------------------------------------- C8
\* C8: the order place_order returns is Executed and absent from the
\* ledger iff a snapshot existed for its symbol, the matching rule held at
\* the snapshot price and resources sufficed; otherwise it is Pending and
\* in the ledger.  Without a snapshot it is Pending and no settlement is
\* attempted.
C8_PlaceOrderResult ==
    [][placed' = placed + 1 =>
         LET c == last_call'
             o == result'.order
             snap == c.symbol \in DOMAIN market_data
             price == market_data[c.symbol].price
             settles ==
                 /\ snap
                 /\ Fireable(c.order_type, c.target_price, price)
                 /\ IF c.order_type = BUY
                    THEN balance >= c.quantity * price
                    ELSE Get(portfolio, c.symbol, 0) >= c.quantity
         IN /\ result'.kind = "Order"
            /\ o.symbol = c.symbol /\ o.order_type = c.order_type
            /\ o.quantity = c.quantity /\ o.target_price = c.target_price
            /\ (o.status = EXECUTED /\ ~InLedger(o.timestamp, orders')) <=> settles
            /\ ~settles => /\ o.status = PENDING
                           /\ \E j \in Indices(orders') : orders'[j] = o
            /\ ~snap => o.status = PENDING /\ attempts' = <<>>]_vars

\* place_order returned an order it settled on the spot.
C8_Witness ==
    /\ last_call.op = "place_order"
    /\ result.order.status = EXECUTED
    /\ ~InLedger(result.order.timestamp, orders)

\* ------------------------------------------------------------------- C9
\* C9: every trade record's execution price is the snapshot price of its
\* symbol at the moment of execution, never the target price, and is
\* <= target_price for a Buy and >= target_price for a Sell.
C9_MatchingRuleOnTrades ==
    [][LET done == {k \in Indices(attempts') : attempts'[k].ret}
       IN /\ Len(trade_history') = Len(trade_history) + Cardinality(done)
          /\ \A k1, k2 \in done :
                k1 # k2 => attempts'[k1].trades_after # attempts'[k2].trades_after
          /\ \A k \in done :
                LET a == attempts'[k]
                IN /\ a.trades_after \in (Len(trade_history) + 1)..Len(trade_history')
                   /\ LET t == trade_history'[a.trades_after]
                      IN /\ t.id = a.order.order_id
                         /\ t.price = market_data'[a.order.symbol].price
                         /\ a.order.order_type = BUY => t.price <= a.order.target_price
                         /\ a.order.order_type = SELL => t.price >= a.order.target_price]_vars

\* A Buy executed below its target price, at the snapshot price.
C9_Witness ==
    \E k \in Indices(attempts) :
        /\ attempts[k].ret
        /\ attempts[k].order.order_type = BUY
        /\ attempts[k].price < attempts[k].order.target_price
        /\ trade_history[attempts[k].trades_after].price = attempts[k].price

\* ------------------------------------------------------------------ C10
\* C10: an order whose settlement failed for lack of cash or holdings
\* stays Pending in the ledger; every later tick for its symbol at which
\* it is fireable attempts it again, and the attempt succeeds exactly when
\* resources suffice at the moment it is made; a failed attempt leaves the
\* balance as it was.
C10_RetryUnsettled ==
    [][/\ \A ts \in failed' :
             \E j \in Indices(orders') :
                 orders'[j].timestamp = ts /\ orders'[j].status = PENDING
       /\ last_call'.op = "update_market_price" =>
             \A i \in Indices(orders) :
                 LET o == orders[i]
                     p == last_call'.price
                 IN (o.timestamp \in failed /\ o.symbol = last_call'.symbol) =>
                      IF Fireable(o.order_type, o.target_price, p)
                      THEN \E k \in Indices(attempts') :
                              LET a == attempts'[k]
                              IN /\ a.order = o
                                 /\ a.price = p
                                 /\ a.ret <=> Sufficient(a)
                                 /\ a.ret => /\ ~InLedger(o.timestamp, orders')
                                             /\ o.timestamp \in retried'
                                 /\ ~a.ret => /\ a.balance_after = a.balance_before
                                              /\ o.timestamp \in failed'
                      ELSE /\ o.timestamp \in failed'
                           /\ \A k \in Indices(attempts') : attempts'[k].order # o]_vars

\* A tick settled an order whose settlement had failed before.
C10_Witness ==
    /\ last_call.op = "update_market_price"
    /\ retried # {}

\* ------------------------------------------------------------------ C11
\* C11: one update_market_price call attempts the fireable Pending orders
\* of the ticked symbol in ledger order, each attempt starting from the
\* balance and holdings the attempt before it left; an attempt settles the
\* whole quantity or changes nothing; trade records of one sweep are in
\* placement order.
FireableAt(ledger, symbol, price) ==
    {i \in Indices(ledger) :
        /\ ledger[i].symbol = symbol
        /\ ledger[i].status = PENDING
        /\ Fireable(ledger[i].order_type, ledger[i].target_price, price)}

C11_SweepOrder ==
    [][last_call'.op = "update_market_price" =>
         LET due == FireableAt(orders, last_call'.symbol, last_call'.price)
             log == attempts'
         IN /\ Len(log) = Cardinality(due)
            /\ \A k \in Indices(log) :
                  LET a == log[k]
                      q == a.order.quantity
                      s == a.order.symbol
                  IN \* the k-th attempt is on the k-th due order of the ledger
                     /\ \E i \in due :
                           /\ orders[i] = a.order
                           /\ Cardinality({j \in due : j < i}) = k - 1
                     /\ a.price = last_call'.price
                     \* it starts where the attempt before it ended
                     /\ a.balance_before =
                           IF k = 1 THEN balance ELSE log[k - 1].balance_after
                     /\ a.portfolio_before =
                           IF k = 1 THEN portfolio ELSE log[k - 1].portfolio_after
                     /\ a.trades_before =
                           IF k = 1 THEN Len(trade_history) ELSE log[k - 1].trades_after
                     /\ a.ret <=> Sufficient(a)
                     \* all of the quantity or nothing
                     /\ IF a.ret
                        THEN /\ trade_history'[a.trades_after].quantity = q
                             /\ trade_history'[a.trades_after].id = a.order.order_id
                             /\ Get(a.portfolio_after, s, 0) - Get(a.portfolio_before, s, 0)
                                    = IF a.order.order_type = BUY THEN q ELSE 0 - q
                        ELSE /\ a.balance_after = a.balance_before
                             /\ a.portfolio_after = a.portfolio_before
                             /\ a.trades_after = a.trades_before
                     /\ k = Len(log) => /\ balance' = a.balance_after
                                        /\ portfolio' = a.portfolio_after
                                        /\ Len(trade_history') = a.trades_after
            /\ \A k1, k2 \in Indices(log) :
                  (k1 < k2 /\ log[k1].ret /\ log[k2].ret)
                     => /\ log[k1].trades_after < log[k2].trades_after
                        /\ log[k1].order.timestamp < log[k2].order.timestamp]_vars

\* Two fireable Buys, each affordable alone but not together: the earlier
\* one executed, the later one stays Pending.
C11_Witness ==
    /\ last_call.op = "update_market_price"
    /\ Len(attempts) = 2
    /\ attempts[1].order.order_type = BUY /\ attempts[2].order.order_type = BUY
    /\ attempts[1].ret /\ ~attempts[2].ret
    /\ attempts[2].order.quantity * attempts[2].price <= attempts[1].balance_before
    /\ \E j \in Indices(orders) : orders[j] = attempts[2].order

\* ------------------------------------------------------------------ C12
\* C12: the reference scenario.  Balance 10000, tick BTC 45000, BUY 0.1 BTC
\* at 44000 stays Pending with balance 10000; tick 43500 executes it at
\* 43500: balance 5650, holdings 0.1; SELL 0.05 BTC at 46000 stays Pending;
\* tick 46500 executes it at 46500: balance 7975, holdings 0.05, an empty
\* ledger and exactly two trade records.
C12_ReferenceScenario ==
    /\ scenario = 2 =>
          /\ result.order.status = PENDING
          /\ orders = <<result.order>>
          /\ balance = 1000000
          /\ trade_history = <<>>
    /\ scenario = 3 =>
          /\ orders = <<>>
          /\ Len(trade_history) = 1
          /\ trade_history[1].price = 43500
          /\ balance = 565000
          /\ portfolio = [s \in {"BTC"} |-> 10]
    /\ scenario = 4 =>
          /\ result.order.status = PENDING
          /\ orders = <<result.order>>
          /\ balance = 565000
          /\ portfolio = [s \in {"BTC"} |-> 10]
    /\ scenario = 5 =>
          /\ orders = <<>>
          /\ Len(trade_history) = 2
          /\ trade_history[2].price = 46500
          /\ trade_history[2].type = SELL
          /\ balance = 797500
          /\ portfolio = [s \in {"BTC"} |-> 5]

\* The whole reference scenario has run.
C12_Witness == scenario = 5 /\ initial_balance = ScenarioBalance

\* ------------------------------------------------------------------ C13
\* C13: portfolio_value() returns balance plus, over the held symbols, held
\* quantity times the symbol's latest snapshot price, a held symbol
\* without a snapshot counting 0; the call changes no engine state.
HeldValue(s) ==
    IF s \in DOMAIN portfolio
    THEN IF s \in DOMAIN market_data THEN portfolio[s] * market_data[s].price ELSE 0
    ELSE 0

RECURSIVE SumOf(_)
SumOf(syms) ==
    IF syms = {} THEN 0
    ELSE LET s == CHOOSE x \in syms : TRUE IN HeldValue(s) + SumOf(syms \ {s})

C13_PortfolioValue ==
    [][last_call'.op = "get_portfolio_value" =>
         /\ result'.kind = "float"
         /\ result'.value = balance + SumOf(Symbols)
         /\ UNCHANGED engine]_vars

\* The value of an engine holding both symbols was asked for.
C13_Witness ==
    /\ last_call.op = "get_portfolio_value"
    /\ DOMAIN portfolio = Symbols
    /\ result.value = balance + SumOf(Symbols)
    /\ result.value > balance

\* ------------------------------------------------------------------ C14
\* C14: every snapshot in the store has price > 0, whatever prices the
\* caller hands to update_market_price.
C14_SnapshotPricePositive ==
    \A s \in DOMAIN market_data : market_data[s].price > 0

\* ------------------------------------------------------------------ C15
\* C15: after every public operation every order in the ledger is Pending,
\* and every order that is Executed is absent from the ledger: it is
\* removed by the operation that executed it.
C15_LedgerHoldsPending ==
    /\ \A j \in Indices(orders) : orders[j].status = PENDING
    /\ \A ts \in DOMAIN lifecycle :
          lifecycle[ts].status = EXECUTED => ~InLedger(ts, orders)
    /\ \A k \in Indices(attempts) :
          attempts[k].ret => ~InLedger(attempts[k].order.timestamp, orders)

\* A sweep executed one order and left another one resting.
C15_Witness ==
    /\ last_call.op = "update_market_price"
    /\ \E k \in Indices(attempts) : attempts[k].ret
    /\ orders # <<>>

\* ------------------------------------------------------------------ C16
\* C16: an order's status changes at most once, from Pending to Executed,
\* together with its one trade record; an Executed order never returns to
\* Pending and is never executed again; no order is ever Cancelled.
C16_StatusLifecycle ==
    [][/\ \A ts \in DOMAIN lifecycle :
             /\ ts \in DOMAIN lifecycle'
             /\ lifecycle[ts].status = EXECUTED => lifecycle'[ts] = lifecycle[ts]
             /\ lifecycle'[ts].status # lifecycle[ts].status
                   => /\ lifecycle[ts].status = PENDING
                      /\ lifecycle'[ts].status = EXECUTED
                      /\ lifecycle'[ts].trades = lifecycle[ts].trades + 1
       /\ \A ts \in DOMAIN lifecycle' :
             /\ lifecycle'[ts].status \in {PENDING, EXECUTED}
             /\ lifecycle'[ts].trades = IF lifecycle'[ts].status = EXECUTED THEN 1 ELSE 0
       /\ \A j \in Indices(orders') :
             /\ orders'[j].timestamp \in DOMAIN lifecycle'
             /\ orders'[j].status = lifecycle'[orders'[j].timestamp].status
       /\ Len(trade_history') - Len(trade_history)
             = Cardinality({ts \in DOMAIN lifecycle' :
                              lifecycle'[ts].trades = 1
                              /\ (ts \in DOMAIN lifecycle => lifecycle[ts].trades = 0)})]_vars

\* An order executed by an earlier operation is still Executed, with its
\* one trade record, after a later operation.
C16_Witness ==
    \E ts \in DOMAIN lifecycle :
        /\ lifecycle[ts].status = EXECUTED
        /\ lifecycle[ts].trades = 1
        /\ ts \notin ExecutedIn(attempts)
        /\ last_call.op = "update_market_price"

\* ------------------------------------------------------------------ C17
\* C17: update_market_price(S, ...) leaves, for every other symbol T, the
\* snapshot of T, holdings[T] and the presence and status of every ledger
\* order of T unchanged, even when such an order is fireable at T's
\* snapshot; it attempts orders of S only.
OfSymbol(ledger, T) == SelectSeq(ledger, LAMBDA o : o.symbol = T)

SameEntry(d, e, key) ==
    /\ (key \in DOMAIN d) <=> (key \in DOMAIN e)
    /\ key \in DOMAIN d => d[key] = e[key]

C17_TickFrame ==
    [][last_call'.op = "update_market_price" =>
         /\ market_data'[last_call'.symbol].price = last_call'.price
         /\ \A k \in Indices(attempts') :
               attempts'[k].order.symbol = last_call'.symbol
         /\ \A T \in Symbols \ {last_call'.symbol} :
               /\ SameEntry(market_data, market_data', T)
               /\ SameEntry(portfolio, portfolio', T)
               /\ OfSymbol(orders', T) = OfSymbol(orders, T)]_vars

\* A tick of one symbol passed over a Pending order of the other symbol
\* that is fireable at its own snapshot.
C17_Witness ==
    /\ last_call.op = "update_market_price"
    /\ \E j \in Indices(orders) :
          /\ orders[j].symbol # last_call.symbol
          /\ orders[j].status = PENDING
          /\ orders[j].symbol \in DOMAIN market_data
          /\ Fireable(orders[j].order_type, orders[j].target_price,
                      market_data[orders[j].symbol].price)

\* ------------------------------------------------------------------ C18
\* C18: an operation that appends no trade record leaves balance and
\* holdings unchanged; every operation leaves the trade records written
\* before in place and unchanged; total_trades of performance_metrics is
\* the number of orders that have reached Executed.
C18_SettlementOnlyAppendOnly ==
    [][/\ Len(trade_history') >= Len(trade_history)
       /\ SubSeq(trade_history', 1, Len(trade_history)) = trade_history
       /\ Len(trade_history') = Len(trade_history)
             => balance' = balance /\ portfolio' = portfolio
       /\ get_performance_metrics(Self').total_trades
             = Cardinality({ts \in DOMAIN lifecycle' :
                              lifecycle'[ts].status = EXECUTED})]_vars

\* An operation whose settlement attempts all failed, on an engine that
\* has traded before.
C18_Witness ==
    /\ trade_history # <<>>
    /\ attempts # <<>>
    /\ \A k \in Indices(attempts) : ~attempts[k].ret
    /\ get_performance_metrics(Self).total_trades = Len(trade_history)

\* ------------------------------------------------------------------ C19
\* C19: every symbol in the holdings mapping has a snapshot in the
\* market-data store, so portfolio_value never skips a held symbol.
RECURSIVE ValueOfHeld(_)
ValueOfHeld(syms) ==
    IF syms = {} THEN 0
    ELSE LET s == CHOOSE x \in syms : TRUE
         IN portfolio[s] * market_data[s].price + ValueOfHeld(syms \ {s})

C19_HeldSymbolsHaveSnapshot ==
    /\ DOMAIN portfolio \subseteq DOMAIN market_data
    /\ get_portfolio_value(Self) = balance + ValueOfHeld(DOMAIN portfolio)

\* Something is held.
C19_Witness ==
    /\ DOMAIN portfolio # {}
    /\ DOMAIN portfolio \subseteq DOMAIN market_data

\* ------------------------------------------------------------------ C20
\* C20: the number of place_order calls equals the number of ledger orders
\* plus the number of trade records, and each placed order is either in
\* the ledger once, Pending and without a trade record, or out of the
\* ledger, Executed and with exactly one trade record.
C20_NoOrderLostOrDuplicated ==
    /\ placed = Len(orders) + Len(trade_history)
    /\ DOMAIN lifecycle = 1..placed
    /\ \A j \in Indices(orders) : orders[j].timestamp \in 1..placed
    /\ \A ts \in 1..placed :
          LET n == Cardinality({j \in Indices(orders) : orders[j].timestamp = ts})
          IN \/ n = 1 /\ lifecycle[ts] = [status |-> PENDING, trades |-> 0]
             \/ n = 0 /\ lifecycle[ts] = [status |-> EXECUTED, trades |-> 1]
    /\ Len(trade_history) = Cardinality({ts \in 1..placed : lifecycle[ts].trades = 1})

\* Two orders placed: one rests in the ledger, one is in the history.
C20_Witness ==
    /\ placed = 2
    /\ Len(orders) = 1
    /\ Len(trade_history) = 1

====
